---------------------------- MODULE Spec2Model ----------------------------
(***************************************************************************)
(* A model of viz/visualize.py: the Visualizer's image-grid operations     *)
(* (generate_heat_maps, reconstructions, samples, all_latent_traversals)   *)
(* and the module functions reorder_img and read_avg_kl_from_file.         *)
(*                                                                         *)
(* Tensors are functions from index tuples to integers.  Every operation   *)
(* of the source is an operator computed the way the source computes it;   *)
(* each specification draws the inputs of one operation from bounded sets  *)
(* and applies it.                                                         *)
(***************************************************************************)
EXTENDS Integers, Sequences, FiniteSets, TLC

VARIABLES
    op,             \* which operation the behaviour exercises
    pc,             \* position of the (single-threaded) call: "call" | "done"
    args,           \* the arguments of the call (a record)
    ret,            \* what the call returned, saved or raised (a record)
    sample_prior,   \* self.latent_traverser.sample_prior
    tpc,            \* samples(): position of each calling thread
    cached,         \* samples(): each thread's local cached_sample_prior
    flag0,          \* samples(): sample_prior before the first call
    seen,           \* samples(): sample_prior as each traverse_grid call read it
    overlapped      \* samples(): a call began while another was in progress

vars == <<op, pc, args, ret, sample_prior, tpc, cached, flag0, seen, overlapped>>

Min(a, b) == IF a < b THEN a ELSE b
Max(a, b) == IF a < b THEN b ELSE a

NoValue == [kind |-> "none"]

(***************************************************************************)
(* Bounds of the model.                                                    *)
(***************************************************************************)
MaxCells == 3       \* cells along the reordered axis of a grid
MaxDim == 2         \* height and width of a cell, in pixels
MaxPad == 1         \* padding between cells, in pixels
NumCalls == 2       \* calls of samples() on one visualizer
MaxLatent == 3      \* latent dimensions of the model
MaxSize == 2        \* samples of one latent traversal
MaxHeat == 3        \* height and width of a heat map
MaxInputs == 4      \* images given to reconstructions()
MaxCount == 3       \* size[0] of reconstructions()

(* pad_value of every make_grid / save_image call of the module *)
PadValue == 10
(* channels of img_size, the default of reorder_img *)
Channels == 3
(* padding of a grid, the default of reorder_img and of make_grid *)
DefaultPadding == 2

(***************************************************************************)
(* Tensors of shape (C, H, W): [C, H, W, px] with px a function on         *)
(* (0..C-1) \X (0..H-1) \X (0..W-1).                                       *)
(***************************************************************************)
Idx3(C, H, W) == (0 .. C - 1) \X (0 .. H - 1) \X (0 .. W - 1)

\* torch.zeros(size)
Zeros3(C, H, W) == [C |-> C, H |-> H, W |-> W, px |-> [i \in Idx3(C, H, W) |-> 0]]

\* A Python slice bound i on an axis of length L (negative counts from the end).
SliceIdx(i, L) == IF i < 0 THEN Max(i + L, 0) ELSE Min(i, L)

\* The indices a Python slice start:stop selects on an axis of length L.
SliceLo(start, L) == SliceIdx(start, L)
SliceHi(start, stop, L) == Max(SliceIdx(start, L), SliceIdx(stop, L))
SliceLen(start, stop, L) == SliceHi(start, stop, L) - SliceLo(start, L)

\* Whether a source extent can be assigned to a destination extent
\* (equal, or a source of 1 broadcast along the axis).
Assignable(srcLen, dstLen) == srcLen = dstLen \/ srcLen = 1

(***************************************************************************)
(* torchvision.utils.make_grid for a batch of more than one image:         *)
(* xmaps = min(nrow, n) images per grid row, ceil(n / xmaps) grid rows,    *)
(* a canvas filled with pad_value, image k at grid row k \div xmaps and    *)
(* grid column k % xmaps.                                                  *)
(***************************************************************************)
GridCols(n, nrow) == Min(nrow, n)
GridRows(n, nrow) == (n + GridCols(n, nrow) - 1) \div GridCols(n, nrow)

\* Single-channel images are repeated on three channels first.
ThreeChannel(t) ==
    IF t.C # 1 THEN t
    ELSE [C |-> 3, H |-> t.H, W |-> t.W,
          px |-> [i \in Idx3(3, t.H, t.W) |-> t.px[<<0, i[2], i[3]>>]]]

\* images: a sequence of n > 1 tensors of shape (C, h, w)
GridOfMany(batch, nrow, padding, pad_value) ==
    LET images == [k \in 1 .. Len(batch) |-> ThreeChannel(batch[k])]
        n == Len(images)
        C == images[1].C
        h == images[1].H + padding
        w == images[1].W + padding
        xmaps == GridCols(n, nrow)
        ymaps == GridRows(n, nrow)
        H == h * ymaps + padding
        W == w * xmaps + padding
        Cell(y, x) ==   \* the image whose pixels cover (y, x), or 0
            LET gy == (y - padding) \div h
                gx == (x - padding) \div w
                oy == (y - padding) % h
                ox == (x - padding) % w
                k == gy * xmaps + gx
            IN IF /\ y >= padding /\ x >= padding
                  /\ gy < ymaps /\ gx < xmaps
                  /\ oy < h - padding /\ ox < w - padding
                  /\ k < n
               THEN k + 1 ELSE 0
    IN [C |-> C, H |-> H, W |-> W,
        px |-> [i \in Idx3(C, H, W) |->
                  IF Cell(i[2], i[3]) = 0 THEN pad_value
                  ELSE images[Cell(i[2], i[3])].px[<<i[1],
                           (i[2] - padding) % h, (i[3] - padding) % w>>]]]

\* A batch of one image is returned as it is, without padding.
make_grid(batch, nrow, padding, pad_value) ==
    IF Len(batch) = 1 THEN ThreeChannel(batch[1])
    ELSE GridOfMany(batch, nrow, padding, pad_value)

(***************************************************************************)
(* reorder_img(orig_img, reorder, by_row, img_size, padding)               *)
(***************************************************************************)
\* One pass of the loop body for (new_idx, old_idx) on the image built so far.
\* Returns [raised, img]: raised is "RuntimeError" when the slices cannot be
\* assigned (the extents differ and the source extent is not 1).
ReorderStepMissingOffset(acc, orig_img, new_idx, old_idx, by_row, height, width, padding) ==
    LET dim == IF by_row THEN height ELSE width
        L == IF by_row THEN orig_img.H ELSE orig_img.W
        start_pix_new == new_idx * (padding + dim)
        start_pix_old == old_idx * (padding + dim) + padding
        lo == SliceLo(start_pix_new, L)
        hi == SliceHi(start_pix_new, start_pix_new + dim, L)
        slo == SliceLo(start_pix_old, L)
        srcLen == SliceLen(start_pix_old, start_pix_old + dim, L)
    IN IF ~Assignable(srcLen, hi - lo) THEN [raised |-> "RuntimeError", img |-> acc]
       ELSE [raised |-> "none", img |-> [acc EXCEPT !.px =
               [i \in Idx3(acc.C, acc.H, acc.W) |->
                  LET a == IF by_row THEN i[2] ELSE i[3]
                      s == IF srcLen = 1 THEN slo ELSE slo + (a - lo)
                  IN IF a >= lo /\ a < hi
                     THEN orig_img.px[IF by_row THEN <<i[1], s, i[3]>>
                                      ELSE <<i[1], i[2], s>>]
                     ELSE acc.px[i]]]]

ReorderStep(acc, orig_img, new_idx, old_idx, by_row, height, width, padding) ==
    LET dim == IF by_row THEN height ELSE width
        L == IF by_row THEN orig_img.H ELSE orig_img.W
        start_pix_new == new_idx * (padding + dim) + padding
        start_pix_old == old_idx * (padding + dim) + padding
        lo == SliceLo(start_pix_new, L)
        hi == SliceHi(start_pix_new, start_pix_new + dim, L)
        slo == SliceLo(start_pix_old, L)
        srcLen == SliceLen(start_pix_old, start_pix_old + dim, L)
    IN IF ~Assignable(srcLen, hi - lo) THEN [raised |-> "RuntimeError", img |-> acc]
       ELSE [raised |-> "none", img |-> [acc EXCEPT !.px =
               [i \in Idx3(acc.C, acc.H, acc.W) |->
                  LET a == IF by_row THEN i[2] ELSE i[3]
                      s == IF srcLen = 1 THEN slo ELSE slo + (a - lo)
                  IN IF a >= lo /\ a < hi
                     THEN orig_img.px[IF by_row THEN <<i[1], s, i[3]>>
                                      ELSE <<i[1], i[2], s>>]
                     ELSE acc.px[i]]]]

RECURSIVE ReorderLoop(_, _, _, _, _, _, _, _)
ReorderLoop(acc, k, orig_img, reorder, by_row, height, width, padding) ==
    IF k > Len(reorder) THEN [raised |-> "none", img |-> acc]
    ELSE LET nxt == ReorderStep(acc, orig_img, k - 1, reorder[k],
                                by_row, height, width, padding)
         IN IF nxt.raised # "none" THEN nxt
            ELSE ReorderLoop(nxt.img, k + 1, orig_img, reorder, by_row,
                             height, width, padding)

\* [raised, img]: the exception raised, or "none" and the returned tensor.
reorder_img(orig_img, reorder, by_row, img_size, padding) ==
    ReorderLoop(Zeros3(orig_img.C, orig_img.H, orig_img.W), 1, orig_img,
                reorder, by_row, img_size[2], img_size[3], padding)

(***************************************************************************)
(* The calls of reorder_img the model makes: grids composed by make_grid   *)
(* from cells whose pixels are pairwise distinct (and differ from 0 and    *)
(* from the pad value), so that every pixel of a result names the pixel of *)
(* the input it was copied from.                                           *)
(***************************************************************************)
TaggedImage(base, k, C, h, w) ==
    [C |-> C, H |-> h, W |-> w,
     px |-> [i \in Idx3(C, h, w) |-> base + ((k * C + i[1]) * h + i[2]) * w + i[3]]]

CellImage(k, C, h, w) == TaggedImage(100, k, C, h, w)

\* A grid of N cells along the reordered axis and M cells across it.
GridImage(N, M, by_row, h, w, padding, pad_value) ==
    make_grid([k \in 1 .. N * M |-> CellImage(k, Channels, h, w)],
              IF by_row THEN M ELSE N, padding, pad_value)

\* Lists of length n over S.
SeqsOfLen(S, n) == [1 .. n -> S]

\* Lists that are bijections on 0..N-1.
Permutations0(N) == {s \in SeqsOfLen(0 .. N - 1, N) : \A i, j \in 1 .. N : s[i] = s[j] => i = j}

IsBijection(s, N) ==
    /\ Len(s) = N
    /\ \A i \in 1 .. N : s[i] \in 0 .. N - 1
    /\ \A i, j \in 1 .. N : s[i] = s[j] => i = j

Identity(N) == [k \in 1 .. N |-> k - 1]

\* Reorder lists: every bijection on 0..N-1, and the lists that are not: the
\* identity with one entry replaced (a repeated index and with it a missing
\* one, or the out-of-range index N), cut short by one, or one entry longer.
ReorderLists(N) ==
    Permutations0(N)
    \cup {[Identity(N) EXCEPT ![k] = v] : k \in 1 .. N, v \in 0 .. N}
    \cup {SubSeq(Identity(N), 1, N - 1)}
    \cup {Append(Identity(N), v) : v \in 0 .. N}

\* Cells across the reordered axis: a strip, or two cells.
AcrossCounts == {1, 2}

\* The geometries of a grid.  make_grid pads a batch of more than one image
\* only: the calls are made on the grids with N * M > 1.
ReorderGeometries ==
    {[N |-> N, M |-> M, by_row |-> by_row, h |-> h, w |-> w, padding |-> padding,
      pad_value |-> pad_value] :
        N \in 1 .. MaxCells, M \in AcrossCounts, by_row \in BOOLEAN,
        h \in 1 .. MaxDim, w \in 1 .. MaxDim, padding \in 0 .. MaxPad,
        pad_value \in {0, PadValue}}

\* The calls on the grid of geometry g.
ReorderArgs(g) ==
    LET orig_img == GridImage(g.N, g.M, g.by_row, g.h, g.w, g.padding, g.pad_value)
    IN {[orig_img |-> orig_img, N |-> g.N, M |-> g.M, reorder |-> reorder,
         by_row |-> g.by_row, img_size |-> <<Channels, g.h, g.w>>,
         padding |-> g.padding, pad_value |-> g.pad_value] :
           reorder \in ReorderLists(g.N)}

IdleVisualizer ==
    /\ sample_prior = FALSE
    /\ tpc = <<>>
    /\ cached = <<>>
    /\ flag0 = FALSE
    /\ seen = <<>>
    /\ overlapped = FALSE

VisualizerUnchanged == UNCHANGED <<sample_prior, tpc, cached, flag0, seen, overlapped>>

InitReorder ==
    /\ op = "reorder_img"
    /\ pc = "call"
    /\ \E g \in ReorderGeometries : g.N * g.M > 1 /\ args \in ReorderArgs(g)
    /\ ret = NoValue
    /\ IdleVisualizer

CallReorder ==
    /\ op = "reorder_img"
    /\ pc = "call"
    /\ pc' = "done"
    /\ ret' = reorder_img(args.orig_img, args.reorder, args.by_row,
                          args.img_size, args.padding)
    /\ UNCHANGED <<op, args>>
    /\ VisualizerUnchanged

NextReorder == CallReorder

SpecReorder == InitReorder /\ [][NextReorder]_vars

(***************************************************************************)
(* The metric log and its scores.  csv.reader yields every field as a      *)
(* string: a score is the sequence of its characters; strings compare by   *)
(* code point, float() reads the decimal value.                            *)
(***************************************************************************)
Ord(c) ==
    CASE c = "." -> 46
      [] c = "0" -> 48 [] c = "1" -> 49 [] c = "2" -> 50 [] c = "3" -> 51
      [] c = "4" -> 52 [] c = "5" -> 53 [] c = "6" -> 54 [] c = "7" -> 55
      [] c = "8" -> 56 [] c = "9" -> 57

\* a < b for Python strings
StrLess(a, b) ==
    \E k \in 1 .. Min(Len(a), Len(b)) + 1 :
        /\ \A j \in 1 .. k - 1 : a[j] = b[j]
        /\ \/ k > Len(a) /\ k <= Len(b)
           \/ k <= Len(a) /\ k <= Len(b) /\ Ord(a[k]) < Ord(b[k])

RECURSIVE DigitsValue(_)
DigitsValue(ds) ==
    IF ds = <<>> THEN 0
    ELSE 10 * DigitsValue(SubSeq(ds, 1, Len(ds) - 1)) + (Ord(ds[Len(ds)]) - 48)

RECURSIVE Pow10(_)
Pow10(n) == IF n = 0 THEN 1 ELSE 10 * Pow10(n - 1)

\* float(s) for a decimal literal of at most four fractional digits, in
\* units of 1/10000.
Float(str) ==
    LET dot == IF \E k \in 1 .. Len(str) : str[k] = "."
               THEN CHOOSE k \in 1 .. Len(str) : str[k] = "."
               ELSE Len(str) + 1
        frac == SubSeq(str, dot + 1, Len(str))
    IN DigitsValue(SubSeq(str, 1, dot - 1)) * 10000
         + DigitsValue(frac) * Pow10(4 - Len(frac))

\* round(x, 3), in units of 1/1000 (no score of the model lies half way)
Round3(x) == (x + 5) \div 10

\* read_avg_kl_from_file(log_file_path): the fields of the last record but
\* the first; an empty file has no last record.
read_avg_kl_from_file(log) ==
    IF Len(log) = 0 THEN [raised |-> "IndexError", value |-> <<>>]
    ELSE [raised |-> "none", value |-> Tail(log[Len(log)])]

(***************************************************************************)
(* sorted(zip(keys, tensors), reverse=True): the pairs in descending order *)
(* of (key, tensor).  Two pairs with equal keys are ordered by comparing   *)
(* their tensors, and the truth value of a comparison of tensors of more   *)
(* than one element is an error.                                           *)
(***************************************************************************)
SortPermutations(n) == {f \in [1 .. n -> 1 .. n] : \A i, j \in 1 .. n : f[i] = f[j] => i = j}

\* The positions of the pairs in descending order of distinct keys.
DescendingOrder(keys) ==
    CHOOSE f \in SortPermutations(Len(keys)) :
        \A i, j \in 1 .. Len(keys) : i < j => StrLess(keys[f[j]], keys[f[i]])

\* numel: the elements of each tensor
SortedPairs(keys, tensors, numel) ==
    LET n == Min(Len(keys), Len(tensors))
        ks == SubSeq(keys, 1, n)
    IN IF \E i, j \in 1 .. n : i # j /\ ks[i] = ks[j] /\ numel > 1
       THEN [raised |-> "RuntimeError", value |-> <<>>]
       ELSE [raised |-> "none",
             value |-> [i \in 1 .. n |->
                          <<ks[DescendingOrder(ks)[i]], tensors[DescendingOrder(ks)[i]]>>]]

(***************************************************************************)
(* Visualizer.all_latent_traversals(size, filename)                        *)
(***************************************************************************)
\* The size make_grid gives a grid of n images of h by w pixels.
GridHeight(n, nrow, h, padding) ==
    IF n = 1 THEN h ELSE GridRows(n, nrow) * (h + padding) + padding
GridWidth(n, nrow, w, padding) ==
    IF n = 1 THEN w ELSE GridCols(n, nrow) * (w + padding) + padding

\* Image.new("RGB", size): size is (width, height).
ImageNew(size) == [width |-> size[1], height |-> size[2]]

\* The traversal of latent dimension idx: a tensor of size by latent_dim
\* elements, here named by the dimension it traverses.
traverse_line(idx, size, latent_dim) == [dim |-> idx, numel |-> size * latent_dim]

all_latent_traversals(log, latent_dim, size, h, w, save_images) ==
    LET avg_kl_list == read_avg_kl_from_file(log)
        latent_samples == [k \in 1 .. latent_dim |->
                             traverse_line(k - 1, size, latent_dim)]
        first == SortedPairs(avg_kl_list.value, latent_samples, size * latent_dim)
        sorted_samples == [i \in 1 .. Len(first.value) |-> first.value[i][2]]
        second == SortedPairs(avg_kl_list.value, sorted_samples, size * latent_dim)
        sorted_avg_kl_list ==
            [i \in 1 .. Len(second.value) |-> Round3(Float(second.value[i][1]))]
        n == Len(sorted_samples) * size
        grid_height == GridHeight(n, size, h, DefaultPadding)
        grid_width == GridWidth(n, size, w, DefaultPadding)
        new_width == (13 * grid_width) \div 10
        new_size == <<grid_height, new_width>>
        failed == [raised |-> "none", rows |-> <<>>, labels |-> <<>>,
                   grid |-> [width |-> 0, height |-> 0],
                   canvas |-> [width |-> 0, height |-> 0], emitted |-> "nothing"]
    IN IF avg_kl_list.raised # "none"
       THEN [failed EXCEPT !.raised = avg_kl_list.raised]
       ELSE IF first.raised # "none"
       THEN [failed EXCEPT !.raised = first.raised]
       ELSE [raised |-> "none",
             rows |-> [i \in 1 .. Len(sorted_samples) |-> sorted_samples[i].dim],
             labels |-> sorted_avg_kl_list,
             grid |-> [width |-> grid_width, height |-> grid_height],
             canvas |-> ImageNew(new_size),
             emitted |-> IF save_images THEN "saved canvas" ELSE "returned grid"]

\* The scores of the model's logs.
ScoreStrings ==
    {<<"0", ".", "1">>, <<"0", ".", "9">>, <<"0", ".", "5">>,
     <<"0", ".", "5", "0">>, <<"1", "0", ".", "5">>, <<"9", ".", "2">>,
     <<"0", ".", "1", "2", "3", "4">>}

\* The first field of a record: the epoch.
Epoch == <<"7">>

\* An empty log, and logs of one and of two records.
LogFiles(D) ==
    {<<>>}
    \cup {<<<<Epoch>> \o scores>> : scores \in [1 .. D -> ScoreStrings]}
    \cup {<<<<Epoch>> \o [k \in 1 .. D |-> <<"0", ".", "1">>], <<Epoch>> \o scores>> :
             scores \in [1 .. D -> ScoreStrings]}

\* The calls on a model of D latent dimensions.
TraversalArgs(D) ==
    {[log |-> log, latent_dim |-> D, size |-> size, h |-> h, w |-> w,
      save_images |-> save_images] :
        log \in LogFiles(D), size \in 1 .. MaxSize,
        h \in {1, MaxDim}, w \in {1, MaxDim}, save_images \in BOOLEAN}

InitTraversals ==
    /\ op = "all_latent_traversals"
    /\ pc = "call"
    /\ \E D \in 1 .. MaxLatent : args \in TraversalArgs(D)
    /\ ret = NoValue
    /\ IdleVisualizer

CallAllLatentTraversals ==
    /\ op = "all_latent_traversals"
    /\ pc = "call"
    /\ pc' = "done"
    /\ ret' = all_latent_traversals(args.log, args.latent_dim, args.size,
                                    args.h, args.w, args.save_images)
    /\ UNCHANGED <<op, args>>
    /\ VisualizerUnchanged

NextTraversals == CallAllLatentTraversals

SpecTraversals == InitTraversals /\ [][NextTraversals]_vars

(***************************************************************************)
(* Properties of all_latent_traversals.                                    *)
(***************************************************************************)
TraversalsDone == op = "all_latent_traversals" /\ pc = "done" /\ Len(args.log) > 0

\* The score of latent dimension d (0-based) in the log, in units of 1/10000.
Score(d) == Float(args.log[Len(args.log)][d + 2])

DistinctScores ==
    \A d, e \in 0 .. args.latent_dim - 1 : d # e => Score(d) # Score(e)

(* C2: for a score series with no two scores equal, the traversal rows are *)
(* composed in descending numerical order of score, and the label drawn at *)
(* row i is the score (to three decimals) of the dimension in row i.       *)
C2_RowsInDescendingScoreOrder ==
    (TraversalsDone /\ DistinctScores) =>
        /\ ret.raised = "none"
        /\ Len(ret.rows) = args.latent_dim
        /\ Len(ret.labels) = args.latent_dim
        /\ \A i, j \in 1 .. Len(ret.rows) :
             i < j => Score(ret.rows[i]) > Score(ret.rows[j])
        /\ \A i \in 1 .. Len(ret.rows) : ret.labels[i] = Round3(Score(ret.rows[i]))

(* C7: when two or more latent dimensions have equal scores the call       *)
(* completes, and the rows of those dimensions keep their dimension-index  *)
(* order relative to each other.                                           *)
C7_TiesKeepDimensionOrder ==
    (TraversalsDone /\ ~DistinctScores) =>
        /\ ret.raised = "none"
        /\ \A i, j \in 1 .. Len(ret.rows) :
             (i < j /\ Score(ret.rows[i]) = Score(ret.rows[j]))
                 => ret.rows[i] < ret.rows[j]

(* C8: for a composed grid of width W and height H, the canvas that hosts  *)
(* the labels has height H and width floor(1.3 * W).                       *)
C8_CanvasWidenedOnly ==
    (TraversalsDone /\ ret.raised = "none") =>
        /\ ret.canvas.height = ret.grid.height
        /\ ret.canvas.width = (13 * ret.grid.width) \div 10

(***************************************************************************)
(* Visualizer.generate_heat_maps(data, heat_map_size, filename)            *)
(*                                                                         *)
(* means: the model's latent means of the data, one row per sample and one *)
(* column per latent dimension, in units of 1/10.                          *)
(***************************************************************************)
\* Storing a float in an int32 tensor truncates it toward zero.
ToInt32(tenths) == IF tenths >= 0 THEN tenths \div 10 ELSE -((-tenths) \div 10)

\* The heat map after the y_posn / x_posn loops for latent_dim.
FillHeatMap(means, latent_dim, heat_map_height, heat_map_width) ==
    [C |-> 1, H |-> heat_map_height, W |-> heat_map_width,
     px |-> [i \in Idx3(1, heat_map_height, heat_map_width) |->
               LET x_posn == i[2]
                   y_posn == i[3]
               IN ToInt32(means[heat_map_width * y_posn + x_posn + 1][latent_dim + 1])]]

\* Some means[heat_map_width * y_posn + x_posn] of the loops is out of range.
HeatIndexError(means, heat_map_height, heat_map_width) ==
    \E y_posn \in 0 .. heat_map_width - 1 : \E x_posn \in 0 .. heat_map_height - 1 :
        heat_map_width * y_posn + x_posn >= Len(means)

generate_heat_maps(means, heat_map_size, save_images) ==
    LET heat_map_height == heat_map_size[1]
        heat_map_width == heat_map_size[2]
        D == Len(means[1])
        Raster(d) == make_grid(<<FillHeatMap(means, d, heat_map_height, heat_map_width)>>,
                               d, DefaultPadding, PadValue)
    IN IF D > 0 /\ HeatIndexError(means, heat_map_height, heat_map_width)
       THEN [raised |-> "IndexError", saved |-> <<>>, returned |-> <<>>,
             model_training |-> FALSE]
       ELSE IF save_images
       THEN [raised |-> "none", saved |-> [k \in 1 .. D |-> Raster(k - 1)],
             returned |-> <<>>, model_training |-> FALSE]
       ELSE [raised |-> "none", saved |-> <<>>,
             returned |-> IF D > 0 THEN <<Raster(0)>> ELSE <<>>,
             model_training |-> FALSE]

\* Means that name their sample and dimension: sample s (0-based) has the
\* mean sign * (1 + s + n * d + frac / 10) in dimension d.
Means(n, D, sign, frac) ==
    [s \in 1 .. n |-> [d \in 1 .. D |-> sign * (10 * (s + n * (d - 1)) + frac)]]

\* The calls for a heat map of H by W.
HeatArgs(H, W) ==
    {[means |-> Means(n, D, sign, frac), heat_map_size |-> <<H, W>>,
      save_images |-> save_images] :
        n \in H * W .. H * W + 1, D \in 1 .. MaxLatent, sign \in {1, -1},
        frac \in {0, 5}, save_images \in BOOLEAN}

InitHeatMaps ==
    /\ op = "generate_heat_maps"
    /\ pc = "call"
    /\ \E H \in 1 .. MaxHeat, W \in 1 .. MaxHeat : args \in HeatArgs(H, W)
    /\ ret = NoValue
    /\ IdleVisualizer

CallGenerateHeatMaps ==
    /\ op = "generate_heat_maps"
    /\ pc = "call"
    /\ pc' = "done"
    /\ ret' = generate_heat_maps(args.means, args.heat_map_size, args.save_images)
    /\ UNCHANGED <<op, args>>
    /\ VisualizerUnchanged

NextHeatMaps == CallGenerateHeatMaps

SpecHeatMaps == InitHeatMaps /\ [][NextHeatMaps]_vars

(***************************************************************************)
(* Properties of generate_heat_maps.                                       *)
(***************************************************************************)
HeatDone == op = "generate_heat_maps" /\ pc = "done"

\* The rasters the call emitted, by latent dimension (1-based).
Emitted == IF args.save_images THEN ret.saved ELSE ret.returned

(* C4: for every grid size (height, width) with at least height * width    *)
(* samples and every latent dimension d, in both output modes,             *)
(* generate_heat_maps emits a raster for d whose pixel at column x, row y  *)
(* holds the dimension-d value (as the int32 raster stores it) of the       *)
(* sample with index y * width + x.                                        *)
C4_HeatMapIsRowMajor ==
    (HeatDone /\ Len(args.means) >= args.heat_map_size[1] * args.heat_map_size[2]) =>
        /\ ret.raised = "none"
        /\ Len(Emitted) = Len(args.means[1])
        /\ \A d \in 1 .. Len(Emitted) :
             \A y \in 0 .. args.heat_map_size[1] - 1 :
               \A x \in 0 .. args.heat_map_size[2] - 1 :
                 Emitted[d].px[<<0, y, x>>]
                     = ToInt32(args.means[y * args.heat_map_size[2] + x + 1][d])

(***************************************************************************)
(* Visualizer.reconstructions(data, size, filename)                        *)
(*                                                                         *)
(* The model's reconstruction of an input is an image of its own, told     *)
(* from the inputs by its pixel values.                                    *)
(***************************************************************************)
\* Input k, and the model's reconstruction of it.
OriginalImage(k, h, w) == TaggedImage(1000, k, Channels, h, w)
ReconImage(k, h, w) == TaggedImage(2000, k, Channels, h, w)

reconstructions(n, h, w, size, save_images) ==
    LET input_data == [k \in 1 .. n |-> OriginalImage(k, h, w)]
        recon_data == [k \in 1 .. n |-> ReconImage(k, h, w)]
        num_images == size[1]
        num_examples == Len(input_data)
        blank_images ==
            IF num_images > num_examples
            THEN [k \in 1 .. num_images - num_examples |-> Zeros3(Channels, h, w)]
            ELSE <<>>
        originals == input_data \o blank_images
        recons == recon_data \o blank_images
        comparison == originals \o recons
    IN [raised |-> "none",
        blank_images |-> Len(blank_images),
        originals |-> Len(originals),
        reconstructions |-> Len(recons),
        grid |-> make_grid(comparison, size[1], DefaultPadding, PadValue),
        grid_rows |-> GridRows(Len(comparison), size[1]),
        emitted |-> IF save_images THEN "saved grid" ELSE "returned grid",
        model_training |-> TRUE]

\* The calls on n inputs.
ReconArgs(n) ==
    {[n |-> n, h |-> h, w |-> w, size |-> <<R, cols>>, save_images |-> save_images] :
        h \in 1 .. MaxDim, w \in 1 .. MaxDim,
        R \in 1 .. MaxCount, cols \in {8}, save_images \in BOOLEAN}

InitRecon ==
    /\ op = "reconstructions"
    /\ pc = "call"
    /\ \E n \in 1 .. MaxInputs : args \in ReconArgs(n)
    /\ ret = NoValue
    /\ IdleVisualizer

CallReconstructions ==
    /\ op = "reconstructions"
    /\ pc = "call"
    /\ pc' = "done"
    /\ ret' = reconstructions(args.n, args.h, args.w, args.size, args.save_images)
    /\ UNCHANGED <<op, args>>
    /\ VisualizerUnchanged

NextRecon == CallReconstructions

SpecRecon == InitRecon /\ [][NextRecon]_vars

(***************************************************************************)
(* Properties of reconstructions.                                          *)
(***************************************************************************)
ReconDone == op = "reconstructions" /\ pc = "done"

\* What a pixel of the composed grid shows.
Kind(v) ==
    IF v >= 2000 THEN "reconstruction"
    ELSE IF v >= 1000 THEN "original"
    ELSE IF v = PadValue THEN "gutter" ELSE "blank"

\* What the cells of grid row g (0-based) show.
KindsInGridRow(g) ==
    {Kind(ret.grid.px[i]) :
        i \in {j \in Idx3(ret.grid.C, ret.grid.H, ret.grid.W) :
                 /\ j[2] >= g * (args.h + DefaultPadding) + DefaultPadding
                 /\ j[2] < (g + 1) * (args.h + DefaultPadding)}}

(* C6: for every number of inputs n >= 1 and every requested count R >= 1, *)
(* reconstructions() does not fail, appends R - n zero images to the       *)
(* originals and to the reconstructions when n < R, and composes a grid    *)
(* whose top half of grid rows holds only originals (and blanks) and whose *)
(* bottom half holds only reconstructions (and blanks).                    *)
C6_TopOriginalsBottomReconstructions ==
    ReconDone =>
        /\ ret.raised = "none"
        /\ args.n < args.size[1] =>
             /\ ret.blank_images = args.size[1] - args.n
             /\ ret.originals = args.size[1]
             /\ ret.reconstructions = args.size[1]
        /\ \A g \in 0 .. ret.grid_rows - 1 :
             IF 2 * g < ret.grid_rows
             THEN "reconstruction" \notin KindsInGridRow(g)
             ELSE "original" \notin KindsInGridRow(g)

(***************************************************************************)
(* Visualizer.samples(): NumCalls calls on one visualizer, each by its own *)
(* thread, one statement at a time.  The sampler (traverse_grid) and the   *)
(* decoder are collaborators: each call of one returns or raises.          *)
(***************************************************************************)
Callers == 1 .. NumCalls

\* Positions inside a call, and the ways a call ends.
InCall == {"set", "sample", "restore", "decode", "emit"}
Exits == {"saved", "returned", "sampler_raised", "decoder_raised"}

InitSamples ==
    /\ op = "samples"
    /\ pc = "call"
    /\ args \in {[save_images |-> b] : b \in BOOLEAN}
    /\ ret = NoValue
    /\ sample_prior \in BOOLEAN
    /\ flag0 = sample_prior
    /\ tpc = [t \in Callers |-> "idle"]
    /\ cached = [t \in Callers |-> FALSE]
    /\ seen = [t \in Callers |-> FALSE]
    /\ overlapped = FALSE

\* cached_sample_prior = self.latent_traverser.sample_prior
SaveFlag(t) ==
    /\ tpc[t] = "idle"
    /\ cached' = [cached EXCEPT ![t] = sample_prior]
    /\ tpc' = [tpc EXCEPT ![t] = "set"]
    /\ overlapped' = (overlapped \/ \E u \in Callers \ {t} : tpc[u] \in InCall)
    /\ UNCHANGED <<op, pc, args, ret, sample_prior, flag0, seen>>

\* self.latent_traverser.sample_prior = True
SetFlag(t) ==
    /\ tpc[t] = "set"
    /\ sample_prior' = TRUE
    /\ tpc' = [tpc EXCEPT ![t] = "sample"]
    /\ UNCHANGED <<op, pc, args, ret, cached, flag0, seen, overlapped>>

\* prior_samples = self.latent_traverser.traverse_grid(size=size)
TraverseGrid(t) ==
    /\ tpc[t] = "sample"
    /\ seen' = [seen EXCEPT ![t] = sample_prior]
    /\ \/ tpc' = [tpc EXCEPT ![t] = "restore"]
       \/ tpc' = [tpc EXCEPT ![t] = "sampler_raised"]
    /\ UNCHANGED <<op, pc, args, ret, sample_prior, cached, flag0, overlapped>>

\* self.latent_traverser.sample_prior = False
RestoreFlagToFalse(t) ==
    /\ tpc[t] = "restore"
    /\ sample_prior' = FALSE
    /\ tpc' = [tpc EXCEPT ![t] = "decode"]
    /\ UNCHANGED <<op, pc, args, ret, cached, flag0, seen, overlapped>>

\* self.latent_traverser.sample_prior = cached_sample_prior
RestoreFlag(t) ==
    /\ tpc[t] = "restore"
    /\ sample_prior' = cached[t]
    /\ tpc' = [tpc EXCEPT ![t] = "decode"]
    /\ UNCHANGED <<op, pc, args, ret, cached, flag0, seen, overlapped>>

\* generated = self._decode_latents(prior_samples)
DecodeLatents(t) ==
    /\ tpc[t] = "decode"
    /\ \/ tpc' = [tpc EXCEPT ![t] = "emit"]
       \/ tpc' = [tpc EXCEPT ![t] = "decoder_raised"]
    /\ UNCHANGED <<op, pc, args, ret, sample_prior, cached, flag0, seen, overlapped>>

\* save_image(...) if self.save_images, else return make_grid(...)
EmitSamples(t) ==
    /\ tpc[t] = "emit"
    /\ tpc' = [tpc EXCEPT ![t] = IF args.save_images THEN "saved" ELSE "returned"]
    /\ UNCHANGED <<op, pc, args, ret, sample_prior, cached, flag0, seen, overlapped>>

NextSamples ==
    \E t \in Callers :
        \/ SaveFlag(t)
        \/ SetFlag(t)
        \/ TraverseGrid(t)
        \/ RestoreFlag(t)
        \/ DecodeLatents(t)
        \/ EmitSamples(t)

SpecSamples == InitSamples /\ [][NextSamples]_vars

(***************************************************************************)
(* Properties of samples().                                                *)
(***************************************************************************)
\* Caller t is the only one that has called samples() so far.
OnlyCall(t) == \A u \in Callers \ {t} : tpc[u] = "idle"

(* C3: for a call of samples() on a visualizer whose flag is v before the  *)
(* call, the flag is true while traverse_grid runs, and on every exit      *)
(* (return, failure of the sampler, failure of the decoder) it is v again. *)
C3_FlagRestoredOnEveryExit ==
    \A t \in Callers :
        (op = "samples" /\ OnlyCall(t)) =>
            /\ tpc[t] \in (Exits \cup {"restore", "decode", "emit"}) => seen[t] = TRUE
            /\ tpc[t] \in Exits => (cached[t] = flag0 /\ sample_prior = flag0)

AllReturned == \A t \in Callers : tpc[t] \in {"saved", "returned"}

ReorderDone == op = "reorder_img" /\ pc = "done"

\* The extent of a cell along the reordered axis, and the axis' length.
AxisDim == IF args.by_row THEN args.img_size[2] ELSE args.img_size[3]
AxisOf(i) == IF args.by_row THEN i[2] ELSE i[3]
BlockStart(k) == k * (args.padding + AxisDim) + args.padding

\* Pixel i with its coordinate along the reordered axis replaced by a.
OnAxis(i, a) == IF args.by_row THEN <<i[1], a, i[3]>> ELSE <<i[1], i[2], a>>

\* The destination block of position k (0-based) covers axis coordinate a.
InBlock(a, k) == a >= BlockStart(k) /\ a < BlockStart(k) + AxisDim

SameTensor(s, t) == s.C = t.C /\ s.H = t.H /\ s.W = t.W /\ s.px = t.px

(* C1: reorder_img called with the identity permutation returns an image   *)
(* equal to the input at every pixel, whatever the gutter pixels hold.     *)
C1_IdentityPixelExact ==
    (ReorderDone /\ args.reorder = Identity(args.N))
        => (ret.raised = "none" /\ SameTensor(ret.img, args.orig_img))

(* C5: reorder_img fails, and returns no image, whenever the reorder list  *)
(* is not a bijection on 0..N-1 (a repeated, missing or out-of-range       *)
(* index, or a list of the wrong length).                                  *)
C5_NonBijectionFails ==
    (ReorderDone /\ ~IsBijection(args.reorder, args.N)) => ret.raised # "none"

(* C10: for a reorder list that is a bijection, reorder_img returns an     *)
(* image of the input's size in which the block of position i equals the   *)
(* input's block of reorder[i], every pixel outside the destination blocks *)
(* is zero, and the input image is as it was composed.                     *)
C10_BijectionMovesBlocks ==
    (ReorderDone /\ IsBijection(args.reorder, args.N)) =>
        /\ ret.raised = "none"
        /\ ret.img.C = args.orig_img.C
        /\ ret.img.H = args.orig_img.H
        /\ ret.img.W = args.orig_img.W
        /\ \A i \in Idx3(ret.img.C, ret.img.H, ret.img.W) :
             /\ \A k \in 0 .. args.N - 1 : \A o \in 0 .. AxisDim - 1 :
                  AxisOf(i) = BlockStart(k) + o =>
                    ret.img.px[i] =
                      args.orig_img.px[OnAxis(i, BlockStart(args.reorder[k + 1]) + o)]
             /\ (\A k \in 0 .. args.N - 1 : ~InBlock(AxisOf(i), k)) => ret.img.px[i] = 0
        /\ args.orig_img = GridImage(args.N, args.M, args.by_row, args.img_size[2],
                                     args.img_size[3], args.padding, args.pad_value)

\* [1, 0, 2] on a 3-row grid with gutters of the pad value: rows 0 and 1 have
\* swapped, row 2 is where it was, and the gutter rows read 0.
C10_Witness ==
    /\ ReorderDone
    /\ args.N = 3
    /\ args.reorder = <<1, 0, 2>>
    /\ args.by_row
    /\ args.padding = 1
    /\ args.pad_value = PadValue
    /\ ret.raised = "none"
    /\ ret.img.px[<<0, BlockStart(0), 1>>] = args.orig_img.px[<<0, BlockStart(1), 1>>]
    /\ ret.img.px[<<0, BlockStart(1), 1>>] = args.orig_img.px[<<0, BlockStart(0), 1>>]
    /\ ret.img.px[<<0, BlockStart(2), 1>>] = args.orig_img.px[<<0, BlockStart(2), 1>>]
    /\ ret.img.px[<<0, BlockStart(0), 1>>] # args.orig_img.px[<<0, BlockStart(0), 1>>]
    /\ ret.img.px[<<0, 0, 0>>] = 0
    /\ args.orig_img.px[<<0, 0, 0>>] = PadValue
=============================================================================
